---- MODULE Spec2Model ----
(***************************************************************************)
(* Model of the adaptive intersection control loop:                        *)
(*   - TrafficLightController (controllers/traffic_light_controller.py):   *)
(*     the timer thread _control_loop, update() and reset(), at the        *)
(*     granularity of the individual reads and writes of shared fields;    *)
(*   - TrafficAnalyzer.analyze and make_decision                           *)
(*     (utils/traffic_analysis.py);                                        *)
(*   - main() (main/main.py): the control loop and its shutdown.           *)
(*                                                                         *)
(* Specifications: Spec (a constructed controller, update() and reset()    *)
(* called freely beside the timer), SpecAuto (the constructor, then the    *)
(* timer alone), SpecAnalyze and SpecDecide (the analyzer's two functions) *)
(* and SpecMain (main() driving the analyzer and the controller).          *)
(* SpecAutoLive and SpecRunning add the threads' scheduling, as fairness,  *)
(* to the timer alone and to the timer beside update().                    *)
(*                                                                         *)
(* Time.  One model time unit is one second.  Absolute time stamps are     *)
(* kept relative to the current time: last_change_age is                   *)
(* time.time() - last_change_time, and every such age saturates at         *)
(* TimeCap, which is at least every duration an age is compared with.      *)
(* Computation steps take no model time: Tick is enabled only when every   *)
(* thread is sleeping, blocked on the lock, waiting in join() or idle.     *)
(* The timer's 0.1 s polling sleep is shorter than one unit, so the timer  *)
(* may wake without a Tick and is awake after every Tick.                  *)
(***************************************************************************)
EXTENDS Integers, Sequences, FiniteSets, TLC

\* ---------------------------------------------------------------- LightState
RED == "red"
YELLOW == "yellow"
GREEN == "green"
\* A key that is not (yet) in the current_state dict.
ABSENT == "absent"

\* self.directions, in cyclic order.
directions == <<"north", "east", "south", "west">>
Approaches == {directions[i] : i \in 1..Len(directions)}

\* A direction that is not one of the fixed approaches: None, which
\* decision.get("direction") gives when the key is missing, or an unknown label.
\* update() treats all of them alike (a hashable key that is not in
\* self.directions), so one value stands for them.
NoDirection == "None"
\* Every key update() may look up or insert in current_state.
Keys == Approaches \cup {NoDirection}

\* decision.get("green_time", default) when the key is missing (a value no
\* request uses).
NoGreenTime == -1

\* ---------------------------------------------------- configuration instance
\* The configuration the controller is checked with (seconds): a valid one
\* (min <= default <= max, yellow > 0) with small durations.  The constructor
\* accepts any dictionary.
MinGreenTime == 1
DefaultGreenTime == 2
MaxGreenTime == 3
YellowTime == 1
SmallConfig ==
    [default_green_time |-> DefaultGreenTime, min_green_time |-> MinGreenTime,
     max_green_time |-> MaxGreenTime, yellow_time |-> YellowTime]

\* control_thread.join(timeout=1.0)
JoinTimeout == 1

Max2(a, b) == IF a >= b THEN a ELSE b
Min2(a, b) == IF a <= b THEN a ELSE b

\* A float (avg_count, congestion_level, max_congestion) is held as the exact
\* rational num / den with den > 0; the floats of this program are quotients of
\* small integers, and their rounding is not modelled.
Rat(num, den) == [num |-> num, den |-> den]
RatLess(a, b) == a.num * b.den < b.num * a.den
RatLeq(a, b) == a.num * b.den <= b.num * a.den
RatEq(a, b) == a.num * b.den = b.num * a.den
\* int(x) for a float x >= 0
RatInt(a) == a.num \div a.den
\* x / y for y > 0
RatDiv(a, b) == Rat(a.num * b.den, a.den * b.num)

\* The green_time values a caller passes: below the minimum, inside the
\* range, above the maximum, or missing.
GreenTimeRequests == {NoGreenTime, MinGreenTime - 1, MinGreenTime, MaxGreenTime + 1}
DirectionRequests == Keys

VARIABLES
    config,                   \* self.config: the traffic light configuration
    current_state,            \* self.current_state: key -> LightState (ABSENT: no such key)
    current_green_direction,  \* self.current_green_direction
    green_duration,           \* self.green_duration
    last_change_age,          \* time.time() - self.last_change_time, saturating
    running,                  \* self.running
    auto_mode,                \* self.auto_mode
    lock,                     \* holder of self.lock: "free", "timer" or "update"
    t_pc,                     \* position of the timer thread in _control_loop
    elapsed_time,             \* _control_loop local elapsed_time, saturating
    current_time_age,         \* time.time() - (local current_time), saturating
    u_pc,                     \* position of the caller of update()
    decision,                 \* the argument of the update() call in progress
    u_slept,                  \* time spent in update()'s time.sleep(yellow_time)
    u_d,                      \* index of update()'s loop over self.directions
    r_pc,                     \* position of the caller of reset()
    r_d,                      \* index of reset()'s loop over self.directions
    join_waited,              \* time spent in control_thread.join(timeout=1.0)
    yellow_age,               \* history: key -> time it has been YELLOW (0 when it is not)
    u_late,                   \* history: the update() in progress was called after reset() returned
    traffic_state,            \* analyze's return value, make_decision's argument:
                              \* the readings in dict order
    result,                   \* make_decision's return value
    congestion_threshold,     \* TrafficAnalyzer.congestion_threshold
    vehicle_counts,           \* TrafficAnalyzer.vehicle_counts: direction -> list of counts
    detections,               \* the argument of the last analyze call: (camera_id,
                              \* number of detections) in dict order
    m_pc,                     \* position of main()
    released                  \* camera_controller.release() has been called

ctrl_vars == <<config, current_state, current_green_direction, green_duration, last_change_age,
               running, auto_mode, lock, t_pc, elapsed_time, current_time_age,
               u_pc, decision, u_slept, u_d, r_pc, r_d, join_waited,
               yellow_age, u_late>>
an_vars == <<traffic_state, result, congestion_threshold, vehicle_counts, detections>>
main_vars == <<m_pc, released>>
vars == <<ctrl_vars, an_vars, main_vars>>

\* A key that the configuration dictionary does not have.
NoConfigValue == -1
\* The defaults of the constructor's config.get calls.
GetDefaultGreenTime == 30
GetMinGreenTime == 10
GetMaxGreenTime == 90
GetYellowTime == 3
\* config.get(key, default), for the value the model keeps under the key
ConfigGetIgnores(value, default) == default
ConfigGet(value, default) == IF value = NoConfigValue THEN default ELSE value

\* The constructor's copies of the configuration (lines 39-42).
default_green_time == ConfigGet(config.default_green_time, GetDefaultGreenTime)
min_green_time == ConfigGet(config.min_green_time, GetMinGreenTime)
max_green_time == ConfigGet(config.max_green_time, GetMaxGreenTime)
yellow_time == ConfigGet(config.yellow_time, GetYellowTime)

\* Every age saturates here: no age is compared with anything larger (a
\* committed green duration is one of the three green times or a request
\* below max_green_time).
TimeCap == Max2(Max2(max_green_time, yellow_time), Max2(default_green_time, min_green_time))
Age(a) == Min2(a + 1, TimeCap)

NoDecision == [direction |-> NoDirection, green_time |-> NoGreenTime]
NoResult == [direction |-> NoDirection, green_time |-> 0]

\* ------------------------------------------------------------ phase changes
\* (each also restarts the history of how long the key has been YELLOW)
_change_to_green(direction) ==
    /\ current_state' = [current_state EXCEPT ![direction] = GREEN]
    /\ yellow_age' = [yellow_age EXCEPT ![direction] = 0]
_change_to_yellow(direction) ==
    /\ current_state' = [current_state EXCEPT ![direction] = YELLOW]
    /\ yellow_age' = [yellow_age EXCEPT ![direction] = 0]
_change_to_red(direction) ==
    /\ current_state' = [current_state EXCEPT ![direction] = RED]
    /\ yellow_age' = [yellow_age EXCEPT ![direction] = 0]

\* self.directions.index(direction); 0 stands for the ValueError it raises.
IndexOf(direction) ==
    IF direction \in Approaches
    THEN CHOOSE i \in 1..Len(directions) : directions[i] = direction
    ELSE 0
\* The successor taken two places on (a variant used to test that C29 depends
\* on the + 1).
NextDirectionSkips(direction) ==
    directions[((IndexOf(direction) + 1) % Len(directions)) + 1]

\* directions[(index + 1) % len(directions)], with 0-based index = IndexOf - 1.
NextDirection(direction) == directions[(IndexOf(direction) % Len(directions)) + 1]

\* -------------------------------------------------------------- constructor
\* The state of a controller whose constructor has returned and whose timer
\* thread has been started.
CtrlInit ==
    /\ current_state = [k \in Keys |->
                          IF k = "north" THEN GREEN
                          ELSE IF k \in Approaches THEN RED ELSE ABSENT]
    /\ current_green_direction = "north"
    /\ green_duration = default_green_time
    /\ last_change_age = 0
    /\ running = TRUE
    /\ auto_mode = TRUE
    /\ lock = "free"
    /\ t_pc = "t_while"
    /\ elapsed_time = 0
    /\ current_time_age = 0
    /\ u_pc = "u_idle"
    /\ decision = NoDecision
    /\ u_slept = 0
    /\ u_d = 1
    /\ r_pc = "r_idle"
    /\ r_d = 1
    /\ join_waited = 0
    /\ yellow_age = [k \in Keys |-> 0]
    /\ u_late = FALSE

\* No controller has been constructed: there is no phase map and no thread.
NotConstructed ==
    /\ current_state = [k \in Keys |-> ABSENT]
    /\ current_green_direction = NoDirection
    /\ green_duration = 0
    /\ last_change_age = 0
    /\ running = FALSE
    /\ auto_mode = FALSE
    /\ lock = "free"
    /\ t_pc = "t_none"
    /\ elapsed_time = 0
    /\ current_time_age = 0
    /\ u_pc = "u_idle"
    /\ decision = NoDecision
    /\ u_slept = 0
    /\ u_d = 1
    /\ r_pc = "r_idle"
    /\ r_d = 1
    /\ join_waited = 0
    /\ yellow_age = [k \in Keys |-> 0]
    /\ u_late = FALSE

\* TrafficLightController(config): __init__ runs to its end; it has no failing
\* path for a dictionary config.
Construct ==
    /\ t_pc = "t_none"
    /\ current_state' = [k \in Keys |->
                           IF k = "north" THEN GREEN
                           ELSE IF k \in Approaches THEN RED ELSE ABSENT]
    /\ last_change_age' = 0
    /\ current_green_direction' = "north"
    /\ green_duration' = default_green_time
    /\ running' = TRUE
    /\ auto_mode' = TRUE
    /\ lock' = "free"
    /\ t_pc' = "t_while"
    /\ UNCHANGED <<config, elapsed_time, current_time_age, u_pc, decision, u_slept,
                   u_d, r_pc, r_d, join_waited, yellow_age, u_late, an_vars, main_vars>>

\* TrafficAnalyzer(): congestion_threshold=10, no history; nothing analysed yet.
DefaultCongestionThreshold == 10
AnIdle ==
    /\ traffic_state = <<>>
    /\ result = NoResult
    /\ congestion_threshold = Rat(DefaultCongestionThreshold, 1)
    /\ vehicle_counts = [d \in Approaches |-> <<>>]
    /\ detections = <<>>

\* No main() drives the controller: its operations are called freely.
MainIdle ==
    /\ m_pc = "m_none"
    /\ released = FALSE

\* ------------------------------------------------------------ _control_loop
t_frame == <<u_pc, decision, u_slept, u_d, r_pc, r_d, join_waited, u_late,
             running, auto_mode, config, an_vars, main_vars>>

\* while self.running:
TimerWhile ==
    /\ t_pc = "t_while"
    /\ t_pc' = IF running THEN "t_auto" ELSE "t_done"
    /\ UNCHANGED <<current_state, current_green_direction, green_duration,
                   last_change_age, lock, elapsed_time, current_time_age,
                   yellow_age, t_frame>>

\* if self.auto_mode:   (read without the lock)
TimerAuto ==
    /\ t_pc = "t_auto"
    /\ t_pc' = IF auto_mode THEN "t_time" ELSE "t_sleep"
    /\ UNCHANGED <<current_state, current_green_direction, green_duration,
                   last_change_age, lock, elapsed_time, current_time_age,
                   yellow_age, t_frame>>

\* current_time = time.time(); elapsed_time = current_time - self.last_change_time
\* (read without the lock)
TimerTime ==
    /\ t_pc = "t_time"
    /\ current_time_age' = 0
    /\ elapsed_time' = last_change_age
    /\ t_pc' = "t_lock"
    /\ UNCHANGED <<current_state, current_green_direction, green_duration,
                   last_change_age, lock, yellow_age, t_frame>>

\* The timer entering its with block whoever holds the lock (a variant used to
\* test that C26 depends on the lock).
TimerLockBarges ==
    /\ t_pc = "t_lock"
    /\ lock' = "timer"
    /\ t_pc' = "t_check"
    /\ UNCHANGED <<current_state, current_green_direction, green_duration,
                   last_change_age, elapsed_time, current_time_age,
                   yellow_age, t_frame>>

\* with self.lock:   (the locals are dead once the with block is left, and are
\* then kept at 0)
TimerLock ==
    /\ t_pc = "t_lock"
    /\ lock = "free"
    /\ lock' = "timer"
    /\ t_pc' = "t_check"
    /\ UNCHANGED <<current_state, current_green_direction, green_duration,
                   last_change_age, elapsed_time, current_time_age,
                   yellow_age, t_frame>>

\* The if / elif on the phase of the active approach and the elapsed time.
\* directions.index() raises ValueError for an active key that is no approach:
\* the exception leaves the with block (the lock is released) and ends the thread.
TimerCheckTarget ==
    IF current_state[current_green_direction] = GREEN
    THEN IF elapsed_time >= green_duration THEN "t_yellow" ELSE "t_sleep"
    ELSE IF current_state[current_green_direction] = YELLOW
         THEN IF elapsed_time >= yellow_time
              THEN IF IndexOf(current_green_direction) = 0 THEN "t_dead" ELSE "t_red"
              ELSE "t_sleep"
         ELSE "t_sleep"

TimerCheck ==
    /\ t_pc = "t_check"
    /\ t_pc' = TimerCheckTarget
    /\ IF TimerCheckTarget \in {"t_sleep", "t_dead"}
       THEN lock' = "free" /\ elapsed_time' = 0 /\ current_time_age' = 0
       ELSE UNCHANGED <<lock, elapsed_time, current_time_age>>
    /\ UNCHANGED <<current_state, current_green_direction, green_duration,
                   last_change_age, yellow_age, t_frame>>

\* self._change_to_yellow(active); self.last_change_time = current_time; release
TimerYellow ==
    /\ t_pc = "t_yellow"
    /\ _change_to_yellow(current_green_direction)
    /\ last_change_age' = current_time_age
    /\ lock' = "free"
    /\ t_pc' = "t_sleep"
    /\ elapsed_time' = 0
    /\ current_time_age' = 0
    /\ UNCHANGED <<current_green_direction, green_duration, t_frame>>

\* self._change_to_red(self.current_green_direction)
TimerRed ==
    /\ t_pc = "t_red"
    /\ _change_to_red(current_green_direction)
    /\ t_pc' = "t_green"
    /\ UNCHANGED <<current_green_direction, green_duration, last_change_age, lock,
                   elapsed_time, current_time_age, t_frame>>

\* self._change_to_green(next_direction); the three assignments; release
TimerGreen ==
    /\ t_pc = "t_green"
    /\ _change_to_green(NextDirection(current_green_direction))
    /\ current_green_direction' = NextDirection(current_green_direction)
    /\ green_duration' = default_green_time
    /\ last_change_age' = current_time_age
    /\ lock' = "free"
    /\ t_pc' = "t_sleep"
    /\ elapsed_time' = 0
    /\ current_time_age' = 0
    /\ UNCHANGED t_frame

\* time.sleep(0.1) ends
TimerWake ==
    /\ t_pc = "t_sleep"
    /\ t_pc' = "t_while"
    /\ UNCHANGED <<current_state, current_green_direction, green_duration,
                   last_change_age, lock, elapsed_time, current_time_age,
                   yellow_age, t_frame>>

\* ------------------------------------------------------------------- update
u_env == <<t_pc, elapsed_time, current_time_age, r_pc, r_d, join_waited, running,
           config>>
u_frame == <<u_env, an_vars, main_vars>>

\* ClampGreenTime without the lower bound (a variant used to test that C6
\* depends on the clamp).
ClampGreenTimeNoMin(green_time) ==
    LET requested == IF green_time = NoGreenTime THEN default_green_time ELSE green_time
    IN  Min2(requested, max_green_time)

\* The clamp without its upper bound (a variant used to test that C27 depends
\* on the min).
ClampGreenTimeNoMax(green_time) ==
    LET requested == IF green_time = NoGreenTime THEN default_green_time ELSE green_time
    IN  Max2(requested, min_green_time)

\* green_time = max(min(green_time, self.max_green_time), self.min_green_time),
\* after decision.get("green_time", self.default_green_time)
ClampGreenTime(green_time) ==
    LET requested == IF green_time = NoGreenTime THEN default_green_time ELSE green_time
    IN  Max2(Min2(requested, max_green_time), min_green_time)

\* update(request) is entered.
UpdateEnter(request) ==
    /\ u_pc = "u_idle"
    /\ decision' = request
    /\ u_late' = (r_pc = "r_done")
    /\ u_pc' = "u_lock"
    /\ UNCHANGED <<current_state, current_green_direction, green_duration,
                   last_change_age, auto_mode, lock, u_slept, u_d, yellow_age, u_env>>

\* Some caller enters update(decision).
UpdateCall ==
    /\ m_pc = "m_none"
    /\ \E direction \in DirectionRequests, green_time \in GreenTimeRequests :
          UpdateEnter([direction |-> direction, green_time |-> green_time])
    /\ UNCHANGED <<an_vars, main_vars>>

\* with self.lock: self.auto_mode = False
UpdateLock ==
    /\ u_pc = "u_lock"
    /\ lock = "free"
    /\ lock' = "update"
    /\ auto_mode' = FALSE
    /\ u_pc' = "u_check"
    /\ UNCHANGED <<current_state, current_green_direction, green_duration,
                   last_change_age, decision, u_slept, u_d, yellow_age, u_late,
                   u_frame>>

\* if direction == self.current_green_direction and
\*    self.current_state[direction] == LightState.GREEN
AlreadyGreen ==
    /\ decision.direction = current_green_direction
    /\ current_state[decision.direction] = GREEN

\* UpdateCheck with the first branch also resetting the timestamp (a variant
\* used to test that C4 depends on the branch leaving it alone).
UpdateCheckRestamps ==
    /\ u_pc = "u_check"
    /\ IF AlreadyGreen
       THEN /\ green_duration' = ClampGreenTime(decision.green_time)
            /\ last_change_age' = 0
            /\ u_pc' = "u_adjusted"
       ELSE /\ green_duration' = green_duration
            /\ last_change_age' = last_change_age
            /\ u_pc' = IF current_state[current_green_direction] = GREEN
                       THEN "u_yellow" ELSE "u_others"
    /\ u_d' = 1
    /\ UNCHANGED <<current_state, current_green_direction,
                   auto_mode, lock, decision, u_slept, yellow_age, u_late, u_frame>>

\* The branch taken at the if of line 125 and, in the else branch, at the if of
\* line 132; the first branch assigns self.green_duration.
UpdateCheck ==
    /\ u_pc = "u_check"
    /\ IF AlreadyGreen
       THEN /\ green_duration' = ClampGreenTime(decision.green_time)
            /\ u_pc' = "u_adjusted"
       ELSE /\ green_duration' = green_duration
            /\ u_pc' = IF current_state[current_green_direction] = GREEN
                       THEN "u_yellow" ELSE "u_others"
    /\ u_d' = 1
    /\ UNCHANGED <<current_state, current_green_direction, last_change_age,
                   auto_mode, lock, decision, u_slept, yellow_age, u_late, u_frame>>

\* self._change_to_yellow(self.current_green_direction), then time.sleep begins
UpdateYellow ==
    /\ u_pc = "u_yellow"
    /\ _change_to_yellow(current_green_direction)
    /\ u_slept' = 0
    /\ u_pc' = "u_sleep"
    /\ UNCHANGED <<current_green_direction, green_duration, last_change_age,
                   auto_mode, lock, decision, u_d, u_late, u_frame>>

\* time.sleep(self.yellow_time) returns; self._change_to_red(active)
UpdateRed ==
    /\ u_pc = "u_sleep"
    /\ u_slept >= yellow_time
    /\ _change_to_red(current_green_direction)
    /\ u_slept' = 0
    /\ u_pc' = "u_others"
    /\ UNCHANGED <<current_green_direction, green_duration, last_change_age,
                   auto_mode, lock, decision, u_d, u_late, u_frame>>

\* UpdateOthers without the forcing to RED (a variant used to test that C1
\* depends on the loop).
UpdateOthersKeeps ==
    /\ u_pc = "u_others"
    /\ IF u_d = Len(directions)
       THEN u_pc' = "u_green" /\ u_d' = 1
       ELSE u_pc' = u_pc /\ u_d' = u_d + 1
    /\ UNCHANGED <<current_state, yellow_age, current_green_direction, green_duration,
                   last_change_age, auto_mode, lock, decision, u_slept, u_late, u_frame>>

\* One iteration of: for d in self.directions:
\*                       if d != direction and self.current_state[d] != RED: red
UpdateOthers ==
    /\ u_pc = "u_others"
    /\ IF directions[u_d] # decision.direction /\ current_state[directions[u_d]] # RED
       THEN _change_to_red(directions[u_d])
       ELSE UNCHANGED <<current_state, yellow_age>>
    /\ IF u_d = Len(directions)
       THEN u_pc' = "u_green" /\ u_d' = 1
       ELSE u_pc' = u_pc /\ u_d' = u_d + 1
    /\ UNCHANGED <<current_green_direction, green_duration, last_change_age,
                   auto_mode, lock, decision, u_slept, u_late, u_frame>>

\* self._change_to_green(direction) and the three assignments of lines 148-150
UpdateGreen ==
    /\ u_pc = "u_green"
    /\ _change_to_green(decision.direction)
    /\ current_green_direction' = decision.direction
    /\ green_duration' = ClampGreenTime(decision.green_time)
    /\ last_change_age' = 0
    /\ u_pc' = "u_switched"
    /\ UNCHANGED <<auto_mode, lock, decision, u_slept, u_d, u_late,
                   u_frame>>

\* self.auto_mode = True; the with block ends; update() returns (its argument
\* is dead from here on)
UpdateReturn ==
    /\ u_pc \in {"u_adjusted", "u_switched"}
    /\ auto_mode' = TRUE
    /\ lock' = "free"
    /\ decision' = NoDecision
    /\ u_late' = FALSE
    /\ u_pc' = "u_idle"
    /\ UNCHANGED <<current_state, current_green_direction, green_duration,
                   last_change_age, u_slept, u_d, yellow_age, u_frame>>

\* -------------------------------------------------------------------- reset
r_env == <<current_green_direction, green_duration, last_change_age, auto_mode,
           lock, t_pc, elapsed_time, current_time_age, u_pc, decision, u_slept, u_d,
           u_late, config>>
r_frame == <<r_env, an_vars, main_vars>>

\* The timer thread has ended (normally or by an exception).
TimerEnded == t_pc \in {"t_done", "t_dead"}
\* The timer thread has a step it can take now.
TimerRunnable ==
    /\ ~TimerEnded
    /\ t_pc # "t_sleep"
    /\ ~(t_pc = "t_lock" /\ lock # "free")

\* reset() is entered: self.running = False
ResetEnter ==
    /\ r_pc = "r_idle"
    /\ running' = FALSE
    /\ join_waited' = 0
    /\ r_pc' = "r_join"
    /\ UNCHANGED <<current_state, yellow_age, r_d, r_env>>

\* Some caller enters reset().
ResetCall ==
    /\ m_pc = "m_none"
    /\ ResetEnter
    /\ UNCHANGED <<an_vars, main_vars>>

\* self.control_thread.join(timeout=1.0) returns: the thread has ended, or the
\* timeout has passed while the thread could not run.
ResetJoin ==
    /\ r_pc = "r_join"
    /\ \/ TimerEnded
       \/ join_waited >= JoinTimeout /\ ~TimerRunnable
    /\ r_pc' = "r_red"
    /\ r_d' = 1
    /\ join_waited' = 0
    /\ UNCHANGED <<current_state, yellow_age, running, r_frame>>

\* One iteration of: for direction in self.directions: self._change_to_red(direction)
\* (no lock is taken)
ResetRed ==
    /\ r_pc = "r_red"
    /\ _change_to_red(directions[r_d])
    /\ IF r_d = Len(directions)
       THEN r_pc' = "r_done" /\ r_d' = 1
       ELSE r_pc' = r_pc /\ r_d' = r_d + 1
    /\ UNCHANGED <<running, join_waited, r_frame>>

\* --------------------------------------------------------------------- time
UpdateWaiting ==
    \/ u_pc = "u_idle"
    \/ u_pc = "u_lock" /\ lock # "free"
    \/ u_pc = "u_sleep" /\ u_slept < yellow_time
ResetWaiting ==
    \/ r_pc \in {"r_idle", "r_done"}
    \/ r_pc = "r_join" /\ ~TimerEnded /\ join_waited < JoinTimeout
\* main() is not running, has ended, is inside update() or reset(), or is in
\* time.sleep(settings.processing_interval), which lasts one second.
MainWaiting == m_pc \in {"m_none", "m_updating", "m_resetting", "m_sleep", "m_done"}

\* One second passes while no thread has a step to take.
Tick ==
    /\ ~TimerRunnable
    /\ UpdateWaiting
    /\ ResetWaiting
    /\ MainWaiting
    /\ last_change_age' = Age(last_change_age)
    /\ yellow_age' = [k \in Keys |-> IF current_state[k] = YELLOW
                                      THEN Min2(yellow_age[k] + 1, yellow_time) ELSE 0]
    /\ current_time_age' = IF t_pc = "t_lock" THEN Age(current_time_age) ELSE current_time_age
    /\ u_slept' = IF u_pc = "u_sleep" THEN Min2(u_slept + 1, yellow_time) ELSE u_slept
    /\ join_waited' = IF r_pc = "r_join" THEN Min2(join_waited + 1, JoinTimeout)
                                         ELSE join_waited
    /\ t_pc' = IF t_pc = "t_sleep" THEN "t_while" ELSE t_pc
    /\ m_pc' = IF m_pc = "m_sleep" THEN "m_capture" ELSE m_pc
    /\ UNCHANGED <<current_state, current_green_direction, green_duration, running,
                   auto_mode, lock, elapsed_time, u_pc, decision, u_d, r_pc, r_d,
                   u_late, config, an_vars, released>>

\* ------------------------------------------------- TrafficAnalyzer.make_decision
\* The congestion levels make_decision is checked with: the multiples of
\* 1 / LevelScale in [0, 1].
LevelScale == 3
Levels == {Rat(k, LevelScale) : k \in 0..LevelScale}
\* return {"direction": "north", "green_time": 30}
FallbackGreenTime == 30
\* green_time = 20 + int(max_congestion * 40)
BaseGreenTime == 20
GreenTimeSpan == 40

\* A traffic state: the (direction, congestion_level) items of the dictionary
\* in its iteration order, each direction at most once.
Readings == [direction : Approaches, congestion_level : Levels]
TrafficStates ==
    {ts \in UNION {[1..n -> Readings] : n \in 0..Len(directions)} :
        \A i, j \in 1..Len(ts) : ts[i].direction = ts[j].direction => i = j}

\* The loop of lines 85-90 taken with < for > (a variant used to test that
\* C10 depends on the comparison).
RECURSIVE MostCongestedLess(_, _, _, _)
MostCongestedLess(ts, i, max_congestion, most_congested_direction) ==
    IF i > Len(ts)
    THEN [max_congestion |-> max_congestion,
          most_congested_direction |-> most_congested_direction]
    ELSE IF RatLess(ts[i].congestion_level, max_congestion)
         THEN MostCongestedLess(ts, i + 1, ts[i].congestion_level, ts[i].direction)
         ELSE MostCongestedLess(ts, i + 1, max_congestion, most_congested_direction)

\* The loop of lines 85-90 from item i on: for direction, state in
\* traffic_state.items(): if congestion_level > max_congestion: ...
RECURSIVE MostCongested(_, _, _, _)
MostCongested(ts, i, max_congestion, most_congested_direction) ==
    IF i > Len(ts)
    THEN [max_congestion |-> max_congestion,
          most_congested_direction |-> most_congested_direction]
    ELSE IF RatLess(max_congestion, ts[i].congestion_level)
         THEN MostCongested(ts, i + 1, ts[i].congestion_level, ts[i].direction)
         ELSE MostCongested(ts, i + 1, max_congestion, most_congested_direction)

\* make_decision(traffic_state); max_congestion starts at -1 and
\* most_congested_direction at None.  int() of a non-negative float is its floor.
make_decision(ts) ==
    LET found == MostCongested(ts, 1, Rat(-1, 1), NoDirection)
    IN  IF found.most_congested_direction = NoDirection
        THEN [direction |-> "north", green_time |-> FallbackGreenTime]
        ELSE [direction |-> found.most_congested_direction,
              green_time |-> BaseGreenTime
                             + RatInt(Rat(found.max_congestion.num * GreenTimeSpan,
                                          found.max_congestion.den))]

\* The configurations make_decision is checked with: the one of Settings
\* (config/settings.py) and the one of the controller tests.
SettingsConfig ==
    [default_green_time |-> 30, min_green_time |-> 10,
     max_green_time |-> 90, yellow_time |-> 3]
TestConfig ==
    [default_green_time |-> 5, min_green_time |-> 2,
     max_green_time |-> 10, yellow_time |-> 1]
Configs == {SettingsConfig, TestConfig}

\* decision = traffic_analyzer.make_decision(traffic_state)
Decide ==
    /\ result = NoResult
    /\ result' = make_decision(traffic_state)
    /\ UNCHANGED <<ctrl_vars, traffic_state, congestion_threshold, vehicle_counts,
                   detections, main_vars>>

InitDecide ==
    /\ config \in Configs
    /\ CtrlInit
    /\ MainIdle
    /\ traffic_state \in TrafficStates
    /\ result = NoResult
    /\ congestion_threshold = Rat(DefaultCongestionThreshold, 1)
    /\ vehicle_counts = [d \in Approaches |-> <<>>]
    /\ detections = <<>>

NextDecide == Decide

SpecDecide == InitDecide /\ [][NextDecide]_vars

\* ----------------------------------------------------- TrafficAnalyzer.analyze
\* self.max_history: the program keeps 10 counts per direction; the model keeps
\* this many, so that every history length and the eviction are reached.
max_history == 3
\* A camera's detections enter analyze only through their number,
\* vehicle_count = len(camera_detections): between 0 and MaxCount.
MaxCount == 1
Counts == 0..MaxCount
\* The positive thresholds analyze is checked with: one that averages reach
\* and exceed, and the default.
Thresholds == {Rat(1, 2), Rat(DefaultCongestionThreshold, 1)}
\* The camera ids of analyze's argument (a camera id is used as the direction).
AnalyzeCameras == {"north", "east"}

\* The detections dictionaries over the cameras cams, as the sequence of their
\* items in iteration order.
DetectionInputs(cams) ==
    {det \in UNION {[1..n -> [camera_id : cams, vehicle_count : Counts]] :
                       n \in 0..Cardinality(cams)} :
        \A i, j \in 1..Len(det) : det[i].camera_id = det[j].camera_id => i = j}

RECURSIVE SeqSum(_)
SeqSum(counts) == IF counts = <<>> THEN 0 ELSE Head(counts) + SeqSum(Tail(counts))

\* np.mean(counts) of a non-empty list
Mean(counts) == Rat(SeqSum(counts), Len(counts))

\* The history update with the newest count evicted in place of the oldest (a
\* variant used to test that C13 depends on which end is evicted).
UpdatedHistoryPopsNewest(history, vehicle_count) ==
    LET appended == Append(history, vehicle_count)
    IN  IF Len(appended) > max_history
        THEN SubSeq(appended, 1, Len(appended) - 1)
        ELSE appended

\* The history update without the eviction (a variant used to test that C23
\* depends on the bound).
UpdatedHistoryKeepsAll(history, vehicle_count) == Append(history, vehicle_count)

\* self.vehicle_counts[direction].append(vehicle_count); if the list is longer
\* than max_history: pop(0)
UpdatedHistory(history, vehicle_count) ==
    LET appended == Append(history, vehicle_count)
    IN  IF Len(appended) > max_history THEN Tail(appended) ELSE appended

\* The congestion level without the cap (a variant used to test that C14
\* depends on the min).
CongestionLevelUncapped(avg_count) == RatDiv(avg_count, congestion_threshold)

\* congestion_level = avg_count / self.congestion_threshold;
\* congestion_level = min(congestion_level, 1.0)
\* (min returns its first argument unless the second is smaller)
CongestionLevel(avg_count) ==
    LET congestion_level == RatDiv(avg_count, congestion_threshold)
    IN  IF RatLess(Rat(1, 1), congestion_level) THEN Rat(1, 1) ELSE congestion_level

\* The loop of lines 44-68 from item i of the detections on; counts is
\* self.vehicle_counts and ts the traffic_state built so far.
RECURSIVE AnalyzeLoop(_, _, _, _)
AnalyzeLoop(det, i, counts, ts) ==
    IF i > Len(det)
    THEN [vehicle_counts |-> counts, traffic_state |-> ts]
    ELSE LET direction == det[i].camera_id
             vehicle_count == det[i].vehicle_count
             history == UpdatedHistory(counts[direction], vehicle_count)
             avg_count == Mean(history)
         IN  AnalyzeLoop(det, i + 1, [counts EXCEPT ![direction] = history],
                         Append(ts, [direction |-> direction,
                                     vehicle_count |-> vehicle_count,
                                     avg_count |-> avg_count,
                                     congestion_level |-> CongestionLevel(avg_count)]))

\* analyze(det): the new history and the returned traffic state.
analyze(det) == AnalyzeLoop(det, 1, vehicle_counts, <<>>)

\* analyze with a zero count appended for every camera missing from the
\* argument (a variant used to test that C15 depends on absent approaches
\* being left alone).
AnalyzePadsAbsent ==
    /\ m_pc = "m_none"
    /\ \E det \in DetectionInputs(AnalyzeCameras) :
          /\ detections' = det
          /\ traffic_state' = analyze(det).traffic_state
          /\ vehicle_counts' =
                [d \in Approaches |->
                    IF d \in AnalyzeCameras /\ \A i \in 1..Len(det) : det[i].camera_id # d
                    THEN UpdatedHistory(vehicle_counts[d], 0)
                    ELSE analyze(det).vehicle_counts[d]]
    /\ UNCHANGED <<ctrl_vars, result, congestion_threshold, main_vars>>

\* traffic_state = traffic_analyzer.analyze(detections), called freely.
Analyze ==
    /\ m_pc = "m_none"
    /\ \E det \in DetectionInputs(AnalyzeCameras) :
          /\ detections' = det
          /\ traffic_state' = analyze(det).traffic_state
          /\ vehicle_counts' = analyze(det).vehicle_counts
    /\ UNCHANGED <<ctrl_vars, result, congestion_threshold, main_vars>>

\* A fresh analyzer with any of the thresholds, beside an untouched controller.
InitAnalyze ==
    /\ config = SmallConfig
    /\ CtrlInit
    /\ MainIdle
    /\ traffic_state = <<>>
    /\ result = NoResult
    /\ congestion_threshold \in Thresholds
    /\ vehicle_counts = [d \in Approaches |-> <<>>]
    /\ detections = <<>>

NextAnalyze == Analyze

SpecAnalyze == InitAnalyze /\ [][NextAnalyze]_vars

\* ------------------------------------------- the controller left to its timer
\* The dictionaries the constructor is called with: the valid SmallConfig, the
\* empty dictionary, and three that break min <= default <= max or yellow > 0.
ConfigRequests ==
    {SmallConfig,
     [default_green_time |-> NoConfigValue, min_green_time |-> NoConfigValue,
      max_green_time |-> NoConfigValue, yellow_time |-> NoConfigValue],
     [SmallConfig EXCEPT !.min_green_time = DefaultGreenTime + 1],
     [SmallConfig EXCEPT !.default_green_time = MaxGreenTime + 1],
     [SmallConfig EXCEPT !.yellow_time = 0]}

InitAuto ==
    /\ config \in ConfigRequests
    /\ NotConstructed
    /\ AnIdle
    /\ MainIdle

\* The constructor, then the timer thread alone: no update() and no reset().
NextAuto ==
    \/ Construct
    \/ TimerWhile
    \/ TimerAuto
    \/ TimerTime
    \/ TimerLock
    \/ TimerCheck
    \/ TimerYellow
    \/ TimerRed
    \/ TimerGreen
    \/ TimerWake
    \/ Tick

SpecAuto == InitAuto /\ [][NextAuto]_vars

\* The same with the scheduling the claim on the cycle assumes: a thread that
\* can take a step takes one (the constructor returns, the timer thread is
\* scheduled), and time passes: the timer's polling sleeps of 0.1 s add up to
\* seconds, so a second goes by although the timer may wake before it has.
SpecAutoLive ==
    /\ SpecAuto
    /\ WF_vars(NextAuto)
    /\ SF_vars(Tick)

\* --------------------------------------------------------------------- main
\* The cameras of Settings' fallback camera configuration; capture_frames
\* returns a frame for every camera, so every cycle carries all of them.
MainCameras == {"north"}
MainDetections ==
    {det \in DetectionInputs(MainCameras) : Len(det) = Cardinality(MainCameras)}

m_frame == <<current_state, current_green_direction, green_duration, last_change_age,
             running, auto_mode, lock, t_pc, elapsed_time, current_time_age, u_pc,
             decision, u_slept, u_d, r_pc, r_d, join_waited, yellow_age, u_late,
             config, congestion_threshold>>

\* frames = capture_frames(); detections[camera_id] = model.detect(frame)
MainCapture ==
    /\ m_pc = "m_capture"
    /\ detections' \in MainDetections
    /\ m_pc' = "m_analyze"
    /\ UNCHANGED <<m_frame, traffic_state, result, vehicle_counts, released>>

\* model.detect(frame) raises (YOLOModel.detect catches nothing): the exception
\* leaves the for loop and the while loop.
MainDetectFails ==
    /\ m_pc = "m_capture"
    /\ m_pc' = "m_failed"
    /\ UNCHANGED <<m_frame, an_vars, released>>

\* The exception is no KeyboardInterrupt: no except clause takes it, and the
\* finally block runs on the way out of main().
MainUncaught ==
    /\ m_pc = "m_failed"
    /\ m_pc' = "m_release"
    /\ UNCHANGED <<m_frame, an_vars, released>>

\* traffic_state = traffic_analyzer.analyze(detections)
MainAnalyze ==
    /\ m_pc = "m_analyze"
    /\ traffic_state' = analyze(detections).traffic_state
    /\ vehicle_counts' = analyze(detections).vehicle_counts
    /\ m_pc' = "m_decide"
    /\ UNCHANGED <<m_frame, result, detections, released>>

\* decision = traffic_analyzer.make_decision(traffic_state)
MainDecide ==
    /\ m_pc = "m_decide"
    /\ result' = make_decision(traffic_state)
    /\ m_pc' = "m_update"
    /\ UNCHANGED <<m_frame, traffic_state, vehicle_counts, detections, released>>

\* traffic_light_controller.update(decision) is entered
MainUpdate ==
    /\ m_pc = "m_update"
    /\ UpdateEnter(result)
    /\ m_pc' = "m_updating"
    /\ UNCHANGED <<an_vars, released>>

\* update() has returned; the two logger.info calls; time.sleep begins
MainUpdated ==
    /\ m_pc = "m_updating"
    /\ u_pc = "u_idle"
    /\ m_pc' = "m_sleep"
    /\ UNCHANGED <<m_frame, an_vars, released>>

\* KeyboardInterrupt reaches the main thread inside the try block.  An update()
\* in progress is abandoned where it stands: leaving its with block releases
\* the lock, and auto_mode keeps the value it has.
MainInterrupt ==
    /\ m_pc \in {"m_capture", "m_analyze", "m_decide", "m_update", "m_updating",
                 "m_sleep"}
    /\ m_pc' = "m_release"
    /\ u_pc' = "u_idle"
    /\ decision' = NoDecision
    /\ u_slept' = 0
    /\ u_d' = 1
    /\ u_late' = FALSE
    /\ lock' = IF lock = "update" THEN "free" ELSE lock
    /\ UNCHANGED <<current_state, current_green_direction, green_duration,
                   last_change_age, running, auto_mode, t_pc, elapsed_time,
                   current_time_age, r_pc, r_d, join_waited, yellow_age, config,
                   an_vars, released>>

\* finally: camera_controller.release()
MainRelease ==
    /\ m_pc = "m_release"
    /\ released' = TRUE
    /\ m_pc' = "m_reset"
    /\ UNCHANGED <<m_frame, an_vars>>

\* traffic_light_controller.reset() is entered
MainReset ==
    /\ m_pc = "m_reset"
    /\ ResetEnter
    /\ m_pc' = "m_resetting"
    /\ UNCHANGED <<an_vars, released>>

\* reset() has returned; main() ends
MainExit ==
    /\ m_pc = "m_resetting"
    /\ r_pc = "r_done"
    /\ m_pc' = "m_done"
    /\ UNCHANGED <<m_frame, an_vars, released>>

\* main() after its four constructors: Settings' configuration, a default
\* TrafficAnalyzer, the controller constructed and the loop about to start.
InitMain ==
    /\ config = SettingsConfig
    /\ CtrlInit
    /\ AnIdle
    /\ m_pc = "m_capture"
    /\ released = FALSE

NextMain ==
    \/ MainCapture
    \/ MainDetectFails
    \/ MainUncaught
    \/ MainAnalyze
    \/ MainDecide
    \/ MainUpdate
    \/ MainUpdated
    \/ MainInterrupt
    \/ MainRelease
    \/ MainReset
    \/ MainExit
    \/ TimerWhile
    \/ TimerAuto
    \/ TimerTime
    \/ TimerLock
    \/ TimerCheck
    \/ TimerYellow
    \/ TimerRed
    \/ TimerGreen
    \/ TimerWake
    \/ UpdateLock
    \/ UpdateCheck
    \/ UpdateYellow
    \/ UpdateRed
    \/ UpdateOthers
    \/ UpdateGreen
    \/ UpdateReturn
    \/ ResetJoin
    \/ ResetRed
    \/ Tick

SpecMain == InitMain /\ [][NextMain]_vars

\* ------------------------------------------------------------ specification
Init ==
    /\ config = SmallConfig
    /\ CtrlInit
    /\ AnIdle
    /\ MainIdle

Next ==
    \/ TimerWhile
    \/ TimerAuto
    \/ TimerTime
    \/ TimerLock
    \/ TimerCheck
    \/ TimerYellow
    \/ TimerRed
    \/ TimerGreen
    \/ TimerWake
    \/ UpdateCall
    \/ UpdateLock
    \/ UpdateCheck
    \/ UpdateYellow
    \/ UpdateRed
    \/ UpdateOthers
    \/ UpdateGreen
    \/ UpdateReturn
    \/ ResetCall
    \/ ResetJoin
    \/ ResetRed
    \/ Tick

Spec == Init /\ [][Next]_vars

\* A running controller whose reset() is not called: the timer thread and the
\* callers of update().
TimerSteps ==
    \/ TimerWhile
    \/ TimerAuto
    \/ TimerTime
    \/ TimerLock
    \/ TimerCheck
    \/ TimerYellow
    \/ TimerRed
    \/ TimerGreen
    \/ TimerWake
UpdateSteps ==
    \/ UpdateLock
    \/ UpdateCheck
    \/ UpdateYellow
    \/ UpdateRed
    \/ UpdateOthers
    \/ UpdateGreen
    \/ UpdateReturn
NextRunning ==
    \/ TimerSteps
    \/ UpdateCall
    \/ UpdateSteps
    \/ Tick

\* Its scheduling: each thread that can take a step takes one, time passes, and
\* a thread that finds the lock free again and again gets it (the timer sleeps
\* 0.1 s outside the lock between two acquisitions, and a caller of update()
\* blocks in acquire()). Calls of update() are not forced.
SpecRunning ==
    /\ Init
    /\ [][NextRunning]_vars
    /\ WF_vars(TimerSteps)
    /\ WF_vars(UpdateSteps)
    /\ SF_vars(TimerLock)
    /\ SF_vars(UpdateLock)
    /\ SF_vars(Tick)

TypeOK ==
    /\ current_state \in [Keys -> {RED, YELLOW, GREEN, ABSENT}]
    /\ current_green_direction \in Keys
    /\ green_duration \in min_green_time..max_green_time
    /\ last_change_age \in 0..TimeCap
    /\ lock \in {"free", "timer", "update"}
    /\ (lock = "timer") = (t_pc \in {"t_check", "t_yellow", "t_red", "t_green"})
    /\ (lock = "update") = (u_pc \notin {"u_idle", "u_lock"})

\* ------------------------------------------------------------------- claims
NonRed(d) == current_state[d] \in {GREEN, YELLOW}
AllRed == \A d \in Approaches : current_state[d] = RED
\* The step is one of update()'s own.
UpdateMoves == u_pc' # u_pc \/ u_d' # u_d
\* The step is one of reset()'s own.
ResetMoves == r_pc' # r_pc \/ r_d' # r_d
\* The step is one of the timer thread's own.
TimerMoves == t_pc' # t_pc

\* C1: in every reachable state, under any interleaving of the timer,
\* update() and reset(), at most one approach is GREEN or YELLOW.
C1_AtMostOneNonRed == Cardinality({d \in Approaches : NonRed(d)}) <= 1

\* C1 witness: reset() is forcing approaches RED while an update() holds the
\* lock in its yellow wait and the timer is blocked on the lock.
C1_Witness ==
    /\ r_pc = "r_red"
    /\ u_pc = "u_sleep"
    /\ t_pc = "t_lock"
    /\ \E d \in Approaches : current_state[d] = YELLOW

\* C2: neither the timer nor update() takes an approach from GREEN to RED
\* directly, and neither takes it from YELLOW to RED before it has been YELLOW
\* for yellow_time.
C2_YellowClearance ==
    [][~ResetMoves =>
         \A d \in Approaches :
            /\ current_state[d] = GREEN => current_state'[d] # RED
            /\ (current_state[d] = YELLOW /\ current_state'[d] = RED)
                  => yellow_age[d] >= yellow_time]_vars

\* C3: an update() whose direction is not one of the fixed approaches changes
\* neither the phase map, the active approach, the committed green duration
\* nor the timestamp, and the timer thread keeps running afterwards.
C3_UnknownDirectionRejected ==
    /\ [][(UpdateMoves /\ u_pc # "u_idle" /\ decision.direction \notin Approaches)
             => UNCHANGED <<current_state, current_green_direction, green_duration,
                            last_change_age>>]_vars
    /\ [](t_pc # "t_dead")

\* C4: the steps of an update() that finds its direction active and GREEN
\* change only green_duration, to the clamped request (so a second identical
\* call changes nothing): the phase map, the active approach and the timestamp
\* stay as they are.
C4_AdjustOnly ==
    [][/\ (UpdateMoves /\ (u_pc = "u_lock" \/ u_pc = "u_adjusted"
                           \/ (u_pc = "u_check" /\ AlreadyGreen)))
            => UNCHANGED <<current_state, current_green_direction, last_change_age>>
       /\ (UpdateMoves /\ u_pc = "u_check" /\ AlreadyGreen)
            => /\ u_pc' = "u_adjusted"
               /\ green_duration' =
                     LET g == IF decision.green_time = NoGreenTime
                              THEN default_green_time ELSE decision.green_time
                     IN  IF g < min_green_time THEN min_green_time
                         ELSE IF g > max_green_time THEN max_green_time ELSE g
       /\ (UpdateMoves /\ u_pc \in {"u_lock", "u_adjusted"})
            => UNCHANGED green_duration]_vars

\* C4 witness: an update() for the GREEN active approach has changed the
\* duration away from the one in force, some time after the last phase change.
C4_Witness ==
    /\ u_pc = "u_adjusted"
    /\ current_state[decision.direction] = GREEN
    /\ decision.direction = current_green_direction
    /\ green_duration = max_green_time
    /\ decision.green_time > max_green_time
    /\ last_change_age > 0

\* C5: when an update() for an approach X that was not the GREEN active
\* approach completes, X is GREEN, X is the active approach, every other
\* approach is RED and the timestamp is the completion time.
C5_SwitchPostcondition ==
    [][(u_pc = "u_switched" /\ u_pc' = "u_idle" /\ decision.direction \in Approaches)
          => /\ current_state'[decision.direction] = GREEN
             /\ current_green_direction' = decision.direction
             /\ \A d \in Approaches \ {decision.direction} : current_state'[d] = RED
             /\ last_change_age' = 0]_vars

\* C6: whenever an update() with a valid direction is about to return, the
\* committed green duration is the requested green_time clamped into
\* [min_green_time, max_green_time] (a missing green_time counts as the default).
C6_ClampedDuration ==
    (u_pc \in {"u_adjusted", "u_switched"} /\ decision.direction \in Approaches)
       => LET g == IF decision.green_time = NoGreenTime
                   THEN default_green_time ELSE decision.green_time
          IN  green_duration = IF g < min_green_time THEN min_green_time
                               ELSE IF g > max_green_time THEN max_green_time ELSE g

\* C6 witness: a request below the minimum has been committed as the minimum
\* by the branch that switches the green approach.
C6_Witness ==
    /\ u_pc = "u_switched"
    /\ decision.direction \in Approaches
    /\ decision.green_time < min_green_time
    /\ decision.green_time # NoGreenTime
    /\ green_duration = min_green_time

\* C7: when reset() returns every approach is RED, and after it has returned
\* the timer thread changes no phase.
C7_ResetFinal ==
    [][/\ (r_pc # "r_done" /\ r_pc' = "r_done") => AllRed'
       /\ (r_pc = "r_done" /\ TimerMoves) => UNCHANGED current_state]_vars

\* C8: an update() called after reset() has returned takes no approach out
\* of RED.
C8_ResetTerminal ==
    [][(UpdateMoves /\ u_late)
          => \A d \in Approaches : current_state[d] = RED => current_state'[d] = RED]_vars

\* make_decision has returned.
Decided == result # NoResult

\* C9: on an empty traffic state make_decision returns the first approach in
\* cyclic order with the configured default_green_time.
C9_FallbackIsDefault ==
    (Decided /\ traffic_state = <<>>)
       => result = [direction |-> directions[1], green_time |-> default_green_time]

\* C10: on a non-empty traffic state make_decision returns a direction of that
\* state whose congestion_level is at least that of every direction in it.
C10_MostCongested ==
    (Decided /\ traffic_state # <<>>)
       => \E i \in 1..Len(traffic_state) :
             /\ traffic_state[i].direction = result.direction
             /\ \A j \in 1..Len(traffic_state) :
                   RatLeq(traffic_state[j].congestion_level,
                          traffic_state[i].congestion_level)

\* C10 witness: a decision on all four approaches where the greatest level is
\* neither first nor last in the dictionary and two lower levels tie.
C10_Witness ==
    /\ Decided
    /\ Len(traffic_state) = 4
    /\ traffic_state[1].congestion_level = Rat(1, LevelScale)
    /\ traffic_state[2].congestion_level = Rat(2, LevelScale)
    /\ traffic_state[3].congestion_level = Rat(1, LevelScale)
    /\ traffic_state[4].congestion_level = Rat(0, LevelScale)
    /\ result.direction = traffic_state[2].direction
    /\ result.direction # "north"

\* C11: when several directions of the traffic state share the greatest
\* congestion_level, make_decision returns the one of them that comes first in
\* the cyclic order north, east, south, west, whatever the order of the
\* dictionary.
C11_TieLowestIndex ==
    (Decided /\ traffic_state # <<>>)
       => \A j \in 1..Len(traffic_state) :
             (\A k \in 1..Len(traffic_state) :
                 RatLeq(traffic_state[k].congestion_level, traffic_state[j].congestion_level))
                => IndexOf(result.direction) <= IndexOf(traffic_state[j].direction)

\* floor(20 + L * 40) for the greatest congestion_level L of the traffic state.
ProportionalGreenTime ==
    LET top == CHOOSE i \in 1..Len(traffic_state) :
                  \A k \in 1..Len(traffic_state) :
                      RatLeq(traffic_state[k].congestion_level,
                             traffic_state[i].congestion_level)
    IN  (20 * traffic_state[top].congestion_level.den
            + traffic_state[top].congestion_level.num * 40)
           \div traffic_state[top].congestion_level.den

\* C12: on a non-empty traffic state the green_time make_decision returns is
\* floor(20 + L * 40) clamped into [min_green_time, max_green_time].
C12_DecisionClamped ==
    (Decided /\ traffic_state # <<>>)
       => result.green_time
             = Max2(min_green_time, Min2(ProportionalGreenTime, max_green_time))



\* C13: after an analyze call, the reading of every approach in the call
\* carries the count just supplied as vehicle_count and, as avg_count, the
\* arithmetic mean of that approach's stored history, which ends with that
\* count and holds at most max_history counts; with a single count in the
\* history (a fresh analyzer) avg_count equals vehicle_count.
C13_MovingAverage ==
    /\ Len(traffic_state) = Len(detections)
    /\ \A i \in 1..Len(traffic_state) :
          LET reading == traffic_state[i]
              history == vehicle_counts[reading.direction]
          IN  /\ reading.direction = detections[i].camera_id
              /\ reading.vehicle_count = detections[i].vehicle_count
              /\ Len(history) \in 1..max_history
              /\ history[Len(history)] = reading.vehicle_count
              /\ reading.avg_count.num * Len(history)
                    = SeqSum(history) * reading.avg_count.den
              /\ Len(history) = 1
                    => reading.avg_count.num
                          = reading.vehicle_count * reading.avg_count.den

\* C13 witness: a call on both cameras whose histories are full: one camera's
\* count is the only non-zero count of its history, the other's is zero after
\* non-zero counts, so each average differs from the count.
C13_Witness ==
    /\ Len(traffic_state) = 2
    /\ \A i \in 1..2 : Len(vehicle_counts[traffic_state[i].direction]) = max_history
    /\ \E i \in 1..2 :
          /\ traffic_state[i].vehicle_count = MaxCount
          /\ SeqSum(vehicle_counts[traffic_state[i].direction]) = MaxCount
    /\ \E i \in 1..2 :
          /\ traffic_state[i].vehicle_count = 0
          /\ SeqSum(vehicle_counts[traffic_state[i].direction]) > 0

\* C14: every reading analyze produces has congestion_level equal to
\* min(avg_count / congestion_threshold, 1), within [0, 1], and of two readings
\* the one with the smaller avg_count has no greater congestion_level.
C14_CongestionLevel ==
    \A i \in 1..Len(traffic_state) :
       LET reading == traffic_state[i]
           level == reading.congestion_level
           quotient == Rat(reading.avg_count.num * congestion_threshold.den,
                           reading.avg_count.den * congestion_threshold.num)
       IN  /\ level.den > 0
           /\ 0 <= level.num
           /\ level.num <= level.den
           /\ IF quotient.num <= quotient.den
              THEN RatEq(level, quotient)
              ELSE level.num = level.den
           /\ \A j \in 1..Len(traffic_state) :
                 RatLeq(reading.avg_count, traffic_state[j].avg_count)
                    => RatLeq(level, traffic_state[j].congestion_level)

\* C14 witness: one reading above the threshold (level capped at 1) beside one
\* strictly between 0 and the threshold.
C14_Witness ==
    /\ Len(traffic_state) = 2
    /\ \E i, j \in 1..2 :
          /\ RatLess(congestion_threshold, traffic_state[i].avg_count)
          /\ traffic_state[i].congestion_level.num = traffic_state[i].congestion_level.den
          /\ traffic_state[j].avg_count.num > 0
          /\ RatLess(traffic_state[j].avg_count, congestion_threshold)

\* The camera ids of the argument of the analyze call that made the step.
CalledCameras == {detections'[i].camera_id : i \in 1..Len(detections')}

\* C15: an analyze call returns a reading for exactly the approaches of its
\* argument, and leaves the stored history of every other approach as it was.
C15_AbsentUntouched ==
    [][/\ {traffic_state'[i].direction : i \in 1..Len(traffic_state')} = CalledCameras
       /\ \A d \in Approaches \ CalledCameras : vehicle_counts'[d] = vehicle_counts[d]]_vars

\* C15 witness: the last call carried east alone while north has a history.
C15_Witness ==
    /\ Len(detections) = 1
    /\ detections[1].camera_id = "east"
    /\ Len(traffic_state) = 1
    /\ vehicle_counts["north"] # <<>>
    /\ Len(vehicle_counts["north"]) < Len(vehicle_counts["east"])

\* The constructor has run in this step.
Constructed == t_pc = "t_none" /\ t_pc' # "t_none"

\* The configuration satisfies min <= default <= max and yellow > 0.
ValidConfig ==
    /\ min_green_time <= default_green_time
    /\ default_green_time <= max_green_time
    /\ yellow_time > 0

\* C16: when the constructor returns, north is GREEN and east, south and west
\* are RED, north is the active approach, the committed green duration is the
\* configured default_green_time, and the green and yellow times in use are
\* the configured ones.
C16_InitialState ==
    [][Constructed =>
          /\ current_state'["north"] = GREEN
          /\ \A d \in Approaches \ {"north"} : current_state'[d] = RED
          /\ current_green_direction' = "north"
          /\ config.default_green_time # NoConfigValue
                => /\ green_duration' = config.default_green_time
                   /\ default_green_time = config.default_green_time
          /\ config.min_green_time # NoConfigValue
                => min_green_time = config.min_green_time
          /\ config.max_green_time # NoConfigValue
                => max_green_time = config.max_green_time
          /\ config.yellow_time # NoConfigValue
                => yellow_time = config.yellow_time]_vars

\* C16 witness: the controller just constructed from SmallConfig, before its
\* timer thread has taken a step.
C16_Witness ==
    /\ config = SmallConfig
    /\ t_pc = "t_while"
    /\ last_change_age = 0
    /\ current_state["north"] = GREEN
    /\ green_duration = DefaultGreenTime
    /\ running
    /\ auto_mode

\* C17: constructing the controller with a configuration that breaks
\* min <= default <= max or yellow > 0 fails: no controller state is set up and
\* no timer thread is started.
C17_InvalidConfigRejected ==
    [][(t_pc = "t_none" /\ ~ValidConfig) => UNCHANGED ctrl_vars]_vars

\* C18: at shutdown the camera handles are released only once the timer thread
\* has ended and main()'s control loop has been left.
C18_StoppedBeforeRelease ==
    released => /\ t_pc \in {"t_done", "t_dead"}
                /\ m_pc \in {"m_reset", "m_resetting", "m_done"}

\* The cyclic successor north -> east -> south -> west -> north.
Successor(d) ==
    CASE d = "north" -> "east"
      [] d = "east" -> "south"
      [] d = "south" -> "west"
      [] d = "west" -> "north"
      [] OTHER -> NoDirection

\* C19: when the timer, holding the lock, finds the active approach YELLOW with
\* an elapsed time of at least yellow_time, it turns that approach RED and then,
\* still holding the lock, turns its cyclic successor GREEN, makes the successor
\* the active approach, commits default_green_time and restarts the timestamp,
\* whichever approach update() had made active.
C19_YellowToNext ==
    [][/\ (/\ t_pc = "t_check"
           /\ TimerMoves
           /\ current_state[current_green_direction] = YELLOW
           /\ elapsed_time >= yellow_time)
          => (t_pc' = "t_red" /\ lock' = "timer")
       /\ (t_pc = "t_red" /\ TimerMoves)
          => /\ current_state'[current_green_direction] = RED
             /\ t_pc' = "t_green"
             /\ lock' = "timer"
       /\ (t_pc = "t_green" /\ TimerMoves)
          => /\ lock = "timer"
             /\ current_state'[current_green_direction] = RED
             /\ current_state'[Successor(current_green_direction)] = GREEN
             /\ current_green_direction' = Successor(current_green_direction)
             /\ green_duration' = default_green_time
             /\ last_change_age' = 0]_vars

\* C20: the timer turns the active approach from GREEN to YELLOW only when the
\* time since the last phase change, as the timestamp stands at that moment, is
\* at least the committed green duration as it stands at that moment.
C20_GreenElapsed ==
    [][(t_pc = "t_yellow" /\ TimerMoves) => last_change_age >= green_duration]_vars

\* The phase changes of the cycle RED -> GREEN -> YELLOW -> RED.
CyclePhaseChanges == {<<RED, GREEN>>, <<GREEN, YELLOW>>, <<YELLOW, RED>>}

\* C21: every change of an approach's phase made by a step of the timer or of
\* update() is RED -> GREEN, GREEN -> YELLOW or YELLOW -> RED.
C21_PhaseOrder ==
    [][(TimerMoves \/ UpdateMoves) =>
          \A d \in Approaches :
             current_state'[d] # current_state[d]
                => <<current_state[d], current_state'[d]>> \in CyclePhaseChanges]_vars

\* The step reads or writes the phase map, the active approach, the committed
\* green duration, the mode flag or the timestamp: for the timer every step
\* from the read of auto_mode to the last assignment, for update() every step
\* after its entry, for reset() every iteration of its loop.
TimerAccesses ==
    /\ TimerMoves
    /\ t_pc \in {"t_auto", "t_time", "t_check", "t_yellow", "t_red", "t_green"}
UpdateAccesses == UpdateMoves /\ u_pc \notin {"u_idle", "u_lock"}
ResetAccesses == ResetMoves /\ r_pc = "r_red"

\* C22: the timer, update() and reset() read and write the phase map, the
\* active approach, the committed green duration, the mode flag and the
\* timestamp only while holding the lock.
C22_AccessUnderLock ==
    [][/\ TimerAccesses => lock = "timer"
       /\ UpdateAccesses => lock = "update"
       /\ ResetAccesses => lock = "reset"]_vars

\* The last n elements of the sequence s (all of it when it has fewer).
LastOf(s, n) == SubSeq(s, Max2(1, Len(s) - n + 1), Len(s))

\* The count supplied for camera d in the analyze call that made the step.
SuppliedCount(d) ==
    detections'[CHOOSE i \in 1..Len(detections') : detections'[i].camera_id = d]
       .vehicle_count

\* C23: every stored history holds at most max_history counts, and an analyze
\* call leaves for each approach it carries the most recent max_history of the
\* counts observed for it, in order: the history it had, followed by the new
\* count, less the oldest entries beyond max_history.  (Histories start empty,
\* so after n counts the history is the last min(n, max_history) of them.)
C23_BoundedHistory ==
    [][\A d \in Approaches :
          /\ Len(vehicle_counts'[d]) <= max_history
          /\ d \in CalledCameras
                => vehicle_counts'[d]
                      = LastOf(Append(vehicle_counts[d], SuppliedCount(d)), max_history)]_vars

\* C23 witness: both histories are full and differ, the last call carried both
\* cameras, and north's newest count differs from its oldest.
C23_Witness ==
    /\ Len(detections) = 2
    /\ Len(vehicle_counts["north"]) = max_history
    /\ Len(vehicle_counts["east"]) = max_history
    /\ vehicle_counts["north"] # vehicle_counts["east"]
    /\ vehicle_counts["north"][1] # vehicle_counts["north"][max_history]

\* C24: the mode flag is False only while an update() call is in progress and
\* holds the lock; whenever no update() holds the lock, and so after every
\* update() call, auto_mode is True.
C24_OverrideOnlyInUpdate ==
    lock # "update" => auto_mode

\* C25: when the detector fails in a cycle of main()'s loop, the cycle goes on
\* with empty counts (analyze, the fallback decision, update()) and the loop
\* continues: the failure is followed by the analysis of an empty detections
\* dictionary, and not by the shutdown.
C25_DetectorFailureTolerated ==
    [][(m_pc = "m_failed" /\ m_pc' # m_pc)
          => (m_pc' = "m_analyze" /\ detections' = <<>>)]_vars

\* update() is in its yellow-clearance wait: it has turned the active approach
\* YELLOW and has not yet turned it RED.
YellowWait == u_pc = "u_sleep"

\* A step of the timer thread itself (time does not pass in it).
TimerStep == TimerMoves /\ u_slept' = u_slept /\ last_change_age' = last_change_age

\* C26: during update()'s yellow-clearance wait update() holds the lock, and
\* the timer makes no phase transition and changes no field of the
\* intersection state: it can at most reach the acquisition of the lock and
\* wait there until update() has completed.
C26_TimerSerialized ==
    /\ [](YellowWait => lock = "update")
    /\ [][YellowWait =>
             /\ TimerMoves => t_pc' \notin {"t_check", "t_yellow", "t_red", "t_green"}
             /\ TimerStep => UNCHANGED <<current_state, current_green_direction,
                                         green_duration, auto_mode>>
             /\ last_change_age' # last_change_age
                   => (last_change_age' = Age(last_change_age) /\ u_slept' # u_slept)]_vars

\* C26 witness: update() is in its wait while the timer, which had read an
\* elapsed time that makes a transition due, waits for the lock.
C26_Witness ==
    /\ YellowWait
    /\ t_pc = "t_lock"
    /\ elapsed_time >= green_duration
    /\ u_slept > 0

\* C27: with a valid configuration the committed green duration is within
\* [min_green_time, max_green_time] in every reachable state.
C27_DurationInRange ==
    ValidConfig => (min_green_time <= green_duration /\ green_duration <= max_green_time)

\* C27 witness: after a request above max_green_time was committed by a switch
\* to another approach, the timer has taken its transition to YELLOW with the
\* duration still at the maximum.
C27_Witness ==
    /\ ValidConfig
    /\ green_duration = max_green_time
    /\ green_duration # default_green_time
    /\ current_green_direction = "south"
    /\ current_state["south"] = YELLOW
    /\ u_pc = "u_idle"

\* C28: whenever the lock is free the active approach is one of the four
\* fixed approaches and every other approach is RED; and the phase map never
\* has a key besides north, east, south and west.
C28_ActiveApproach ==
    /\ current_state[NoDirection] = ABSENT
    /\ lock = "free"
          => /\ current_green_direction \in Approaches
             /\ \A d \in Approaches \ {current_green_direction} : current_state[d] = RED

\* C29: with no update() and no reset(), and the timer scheduled, every
\* approach is GREEN infinitely often, and whenever the GREEN approach changes
\* the new one is the cyclic successor of the old one.
C29_RoundRobin ==
    /\ \A d \in Approaches : []<>(current_state[d] = GREEN)
    /\ [][\A d \in Approaches :
             (current_state[d] # GREEN /\ current_state'[d] = GREEN)
                => /\ t_pc = "t_none" => d = "north"
                   /\ t_pc # "t_none"
                         => /\ Successor(current_green_direction) = d
                            /\ current_green_direction' = d]_vars

\* C29 witness: the timer has taken north, east and south through their
\* phases, has just turned west RED and is about to wrap round to north.
C29_Witness ==
    /\ current_green_direction = "west"
    /\ \A d \in Approaches : current_state[d] = RED
    /\ t_pc = "t_green"
    /\ lock = "timer"
    /\ Successor("west") = "north"

\* C30: every update() call completes and returns with the lock released; a
\* timer waiting for the lock gets it; and a timer that holds the lock ends
\* its locked section and goes on polling, so that its due transition is taken.
C30_NoDeadlock ==
    /\ (u_pc # "u_idle") ~> (u_pc = "u_idle")
    /\ [][(u_pc # "u_idle" /\ u_pc' = "u_idle") => lock' = "free"]_vars
    /\ (t_pc = "t_lock") ~> (lock = "timer")
    /\ (lock = "timer") ~> (t_pc = "t_sleep")

====
